---- MODULE Spec2Model ----
(***************************************************************************)
(* The IndexedDB storage layer of the Invoice Generator web app            *)
(* (docs/js/storage.js) and the client edit form that calls it.            *)
(*                                                                         *)
(* One step of the model is one JavaScript task with its microtasks: the   *)
(* synchronous part of a call, an open request's success or error event,   *)
(* a request's success or error event, a transaction's complete or abort   *)
(* event.  The object stores follow the Indexed Database API: in-line keys *)
(* (keyPath 'id'), a key generator per autoIncrement store that delete and *)
(* clear never reset and that an aborted transaction reverts, transactions *)
(* with overlapping scope run in the order they were created, and a        *)
(* transaction whose requests all succeeded can still abort when it        *)
(* commits (quota, I/O error), which fires 'abort' and no 'error' event.   *)
(***************************************************************************)
EXTENDS Integers, Sequences, FiniteSets, TLC

\* ------------------------------------------------------------------ bounds
\* Largest key of the clients store the model lets the key generator reach.
MaxKey == 2
\* Largest key of the invoices and timesheets stores.
MaxDocKey == 1
\* Most records a snapshot handed to importAll holds, over its four arrays.
MaxSnap == 2
\* Number of call slots (calls that can be in flight at once).
MaxProcs == 3
\* Number of calls in flight at once while a backup is restored.
MaxRestoreCalls == 2

\* --------------------------------------------------------------- constants
STORES == <<"clients", "company", "invoices", "timesheets">>

StoreNames == {STORES[i] : i \in 1..Len(STORES)}

\* The stores created with autoIncrement: true.
AutoStores == {"clients", "invoices", "timesheets"}

\* The required keys in another order.
requiredKeysReordered == <<"timesheets", "invoices", "company", "clients">>

requiredKeys == <<"clients", "company", "invoices", "timesheets">>

Procs == 1..MaxProcs

Vals == {"a", "b"}

\* The field values the model tells apart in each store.
ValsOf(s) == IF s = "clients" THEN Vals ELSE {"a"}

\* The keys the model uses in each store.
KeysOf(s) ==
  CASE s = "clients" -> 1..MaxKey
    [] s = "company" -> {"default", "other"}
    [] OTHER -> 1..MaxDocKey

\* --------------------------------------------------------------- records
\* A record is a JavaScript object: its fields are abstracted to val, and its
\* id property is present or absent.
Rec(k, v) == [id |-> k, val |-> v]

NoIdRec(v) == [val |-> v]

HasId(r) == "id" \in DOMAIN r

Keys(content) == {r.id : r \in content}

\* Position of a key in the key order of its store.
KeyRank(k) == IF k = "default" THEN 1 ELSE IF k = "other" THEN 2 ELSE k

KeyedRank(s, k) == IF s = "company" THEN KeyRank(k) ELSE k

\* ------------------------------------------------------- the object stores
\* store.put(record) throws DataError synchronously when the store has no key
\* generator and the record has no id.
PutThrows(s, r) == ~HasId(r) /\ s \notin AutoStores

\* store.add(record): a record stored under the key stays as it is.
StoreAdd(s, content, g, r) ==
  LET k == IF HasId(r) THEN r.id ELSE g
      stored == Rec(k, r.val)
  IN [key |-> k,
      content |-> IF \E x \in content : x.id = k THEN content ELSE content \cup {stored},
      gen |-> IF s \in AutoStores
              THEN (IF HasId(r) THEN (IF k >= g THEN k + 1 ELSE g) ELSE g + 1)
              ELSE g]

\* A put that takes the key from the generator also when the record has an id.
StorePutGenerates(s, content, g, r) ==
  LET k == IF HasId(r) /\ s \notin AutoStores THEN r.id ELSE g
      stored == Rec(k, r.val)
  IN [key |-> k,
      content |-> {x \in content : x.id # k} \cup {stored},
      gen |-> IF s \in AutoStores THEN g + 1 ELSE g]

\* store.put(record) on a store's contents and key generator: the stored
\* record, the new contents, the new generator value.
StorePut(s, content, g, r) ==
  LET k == IF HasId(r) THEN r.id ELSE g
      stored == Rec(k, r.val)
  IN [key |-> k,
      content |-> {x \in content : x.id # k} \cup {stored},
      gen |-> IF s \in AutoStores
              THEN (IF HasId(r) THEN (IF k >= g THEN k + 1 ELSE g) ELSE g + 1)
              ELSE g]

\* A delete that empties the store.
StoreDeleteAll(content, k) == {}

\* store.delete(id).
StoreDelete(content, k) == {x \in content : x.id # k}

\* A get that falls back to what the store holds when the id is absent.
StoreGetOrAny(content, k) ==
  IF \E x \in content : x.id = k THEN {x \in content : x.id = k} ELSE content

\* store.get(id): the record, or "undefined" as the empty set.
StoreGet(content, k) == {x \in content : x.id = k}

RECURSIVE SortedByKey(_, _)
\* store.getAll(): the records in ascending key order.
SortedByKey(s, content) ==
  IF content = {} THEN <<>>
  ELSE LET first == CHOOSE x \in content :
                      \A y \in content : KeyedRank(s, x.id) <= KeyedRank(s, y.id)
       IN <<first>> \o SortedByKey(s, content \ {first})

\* Requests of a transaction.
PutReq(s, r) == [t |-> "put", s |-> s, r |-> r]
DeleteReq(s, k) == [t |-> "delete", s |-> s, k |-> k]
ClearReq(s) == [t |-> "clear", s |-> s]
GetReq(s, k) == [t |-> "get", s |-> s, k |-> k]
GetAllReq(s) == [t |-> "getAll", s |-> s]

GenOf(g, s) == IF s \in AutoStores THEN g[s] ELSE 0

\* A delete that cascades: the records under the id go from the documents too.
ApplyReqCascade(q, d, g) ==
  CASE q.t = "put" ->
         LET out == StorePut(q.s, d[q.s], GenOf(g, q.s), q.r)
         IN [d |-> [d EXCEPT ![q.s] = out.content],
             g |-> IF q.s \in AutoStores THEN [g EXCEPT ![q.s] = out.gen] ELSE g]
    [] q.t = "delete" ->
         [d |-> [s \in StoreNames |->
                   IF s = q.s \/ (q.s = "clients" /\ s \in AutoStores)
                   THEN StoreDelete(d[s], q.k) ELSE d[s]],
          g |-> g]
    [] q.t = "clear" -> [d |-> [d EXCEPT ![q.s] = {}], g |-> g]
    [] OTHER -> [d |-> d, g |-> g]

\* A clear that also resets the key generator of the store.
ApplyReqClearResets(q, d, g) ==
  CASE q.t = "put" ->
         LET out == StorePut(q.s, d[q.s], GenOf(g, q.s), q.r)
         IN [d |-> [d EXCEPT ![q.s] = out.content],
             g |-> IF q.s \in AutoStores THEN [g EXCEPT ![q.s] = out.gen] ELSE g]
    [] q.t = "delete" -> [d |-> [d EXCEPT ![q.s] = StoreDelete(d[q.s], q.k)], g |-> g]
    [] q.t = "clear" ->
         [d |-> [d EXCEPT ![q.s] = {}],
          g |-> IF q.s \in AutoStores THEN [g EXCEPT ![q.s] = 1] ELSE g]
    [] OTHER -> [d |-> d, g |-> g]

\* One request applied to the stores d and the key generators g.
ApplyReq(q, d, g) ==
  CASE q.t = "put" ->
         LET out == StorePut(q.s, d[q.s], GenOf(g, q.s), q.r)
         IN [d |-> [d EXCEPT ![q.s] = out.content],
             g |-> IF q.s \in AutoStores THEN [g EXCEPT ![q.s] = out.gen] ELSE g]
    [] q.t = "delete" -> [d |-> [d EXCEPT ![q.s] = StoreDelete(d[q.s], q.k)], g |-> g]
    [] q.t = "clear" -> [d |-> [d EXCEPT ![q.s] = {}], g |-> g]
    [] OTHER -> [d |-> d, g |-> g]

RECURSIVE ApplyReqs(_, _, _)
\* The requests of a transaction applied in the order they were placed.
ApplyReqs(reqs, d, g) ==
  IF reqs = <<>> THEN [d |-> d, g |-> g]
  ELSE LET one == ApplyReq(Head(reqs), d, g)
       IN ApplyReqs(Tail(reqs), one.d, one.g)

\* The result a request's success event carries.
ReqResult(q, d, g) ==
  CASE q.t = "put" -> StorePut(q.s, d[q.s], GenOf(g, q.s), q.r).key
    [] q.t = "get" -> StoreGet(d[q.s], q.k)
    [] q.t = "getAll" -> SortedByKey(q.s, d[q.s])
    [] OTHER -> "undefined"

\* ------------------------------------------------------------------- state
VARIABLES
  db,        \* the committed contents of each object store
  gen,       \* the committed key generator of each autoIncrement store
  _db,       \* the cached connection (0: null; n: the n-th connection opened)
  openQ,     \* open requests in flight, oldest first
  txQ,       \* live transactions, in creation order
  calls,     \* the call in each slot: its arguments, its position, its outcome
  maxAssigned, \* history: the largest key a clients put without id resolved with
  held,      \* history: the keys that committed clients records have had
  pyReady    \* whether the Python runtime has reported that it is loaded

vars == <<db, gen, _db, openQ, txQ, calls, maxAssigned, held, pyReady>>

Idle == [pc |-> "idle", op |-> "none"]

Active(c) == c.pc \in {"opening", "queued", "resolved", "form"}

\* Nothing is in flight: no call, no open request, no transaction.
Quiet == /\ \A p \in Procs : calls[p].pc = "idle"
         /\ txQ = <<>>
         /\ openQ = <<>>

\* The slot a new call takes: the lowest free one.
FreeSlot(p) == /\ calls[p].pc = "idle"
               /\ \A q \in Procs : q < p => calls[q].pc # "idle"

Init ==
  /\ db = [s \in StoreNames |-> {}]
  /\ gen = [s \in AutoStores |-> 1]
  /\ _db = 0
  /\ openQ = <<>>
  /\ txQ = <<>>
  /\ calls = [p \in Procs |-> Idle]
  /\ maxAssigned = 0
  /\ held = {}
  /\ pyReady = FALSE

\* ------------------------------------------------------------ transactions
\* A transaction: the call and sub-call that created it, its scope and mode,
\* the requests placed on it, whether they have run, and who listens: "request"
\* (promisify on its one request), "tx" (importAll's oncomplete and onerror),
\* "none" (the call that created it has already been rejected).
Tx(p, tag, scope, rw, reqs, listen) ==
  [p |-> p, tag |-> tag, scope |-> scope, rw |-> rw, reqs |-> reqs,
   phase |-> "queued", listen |-> listen]

\* tx(storeName, mode) followed by the one request of a CRUD function.
CrudTx(p, s, rw, q) == Tx(p, s, {s}, rw, <<q>>, "request")

Conflict(a, b) == a.scope \cap b.scope # {} /\ (a.rw \/ b.rw)

\* A transaction runs once every earlier transaction it conflicts with ended.
TxReady(i) == \A j \in 1..(i - 1) : ~Conflict(txQ[j], txQ[i])

RemoveAt(q, i) == SubSeq(q, 1, i - 1) \o SubSeq(q, i + 1, Len(q))

\* --------------------------------------------------------------- snapshots
\* The value a snapshot holds under a key: an array of records, a value that
\* is no array, or nothing (the key is missing).
Arr(items) == [kind |-> "array", items |-> items]

NotArr(kind) == [kind |-> kind, items |-> <<>>]

\* A test that a missing key passes: jsonObj[key] === undefined || Array.isArray.
IsArrayOrMissing(snap, key) == snap[key].kind \in {"array", "missing"}

\* Array.isArray(jsonObj[key]).
IsArray(snap, key) == snap[key].kind = "array"

RECURSIVE ValidateFrom(_, _)
\* The loop over requiredKeys from position i: "ok", or the key it throws on.
ValidateFrom(snap, i) ==
  IF i > Len(requiredKeys) THEN "ok"
  ELSE IF ~IsArray(snap, requiredKeys[i]) THEN requiredKeys[i]
  ELSE ValidateFrom(snap, i + 1)

\* A validation that also refuses a snapshot of another format version.
ValidateVersioned(snap) ==
  IF "version" \in DOMAIN snap /\ snap.version # 1 THEN "version"
  ELSE ValidateFrom(snap, 1)

\* The validation loop of importAll: "ok", or the key it throws on.
Validate(snap) == ValidateFrom(snap, 1)

RECURSIVE PutsUntilThrow(_, _)
\* The loop "for (const record of records) store.put(record)": the requests it
\* places, and whether a put threw and ended it.
PutsUntilThrow(s, records) ==
  IF records = <<>> THEN [reqs |-> <<>>, threw |-> FALSE]
  ELSE IF PutThrows(s, Head(records)) THEN [reqs |-> <<>>, threw |-> TRUE]
  ELSE LET rest == PutsUntilThrow(s, Tail(records))
       IN [reqs |-> <<PutReq(s, Head(records))>> \o rest.reqs, threw |-> rest.threw]

\* clearAndPut without store.clear(): the records are put over what is there.
clearAndPutNoClear(s, records) == PutsUntilThrow(s, records)

\* clearAndPut(storeName, records).
clearAndPut(s, records) ==
  LET puts == PutsUntilThrow(s, records)
  IN [reqs |-> <<ClearReq(s)>> \o puts.reqs, threw |-> puts.threw]

RECURSIVE ClearAndPutFrom(_, _)
\* The four clearAndPut calls from position i of STORES on, in the order
\* clients, company, invoices, timesheets, up to the first that throws.
ClearAndPutFrom(snap, i) ==
  IF i > Len(STORES) THEN [reqs |-> <<>>, threw |-> FALSE]
  ELSE LET one == clearAndPut(STORES[i], snap[STORES[i]].items)
       IN IF one.threw THEN one
          ELSE LET rest == ClearAndPutFrom(snap, i + 1)
               IN [reqs |-> one.reqs \o rest.reqs, threw |-> rest.threw]

\* database.transaction(storeNames, 'readwrite') and the requests placed on it.
ImportTx(p, snap) ==
  LET placed == ClearAndPutFrom(snap, 1)
  IN Tx(p, "*", StoreNames, TRUE, placed.reqs, IF placed.threw THEN "none" ELSE "tx")

\* The value importAll returns.
ImportCounts(snap) ==
  [clients |-> Len(snap["clients"].items),
   invoices |-> Len(snap["invoices"].items),
   timesheets |-> Len(snap["timesheets"].items)]

\* The call rejected with an error.
Rejected(c, err) == [pc |-> "done", op |-> c.op, ok |-> FALSE, err |-> err]

\* A payload that leaves the company settings out.
PayloadNoCompany(res) ==
  [version |-> 1, exported_at |-> "now",
   clients |-> Arr(res["clients"]), company |-> Arr(<<>>),
   invoices |-> Arr(res["invoices"]), timesheets |-> Arr(res["timesheets"])]

\* The payload exportAll builds from the four getAll results.
Payload(res) ==
  [version |-> 1, exported_at |-> "now",
   clients |-> Arr(res["clients"]), company |-> Arr(res["company"]),
   invoices |-> Arr(res["invoices"]), timesheets |-> Arr(res["timesheets"])]

\* ----------------------------------------------------- after openDB resolves
\* The transaction the continuation of sub-call tag of call c creates once
\* openDB() has resolved: tx(storeName, mode) and the request placed on it, or
\* importAll's transaction.
ContTx(p, c, tag) ==
  CASE c.op = "put" -> CrudTx(p, c.s, TRUE, PutReq(c.s, c.r))
    [] c.op = "delete" -> CrudTx(p, c.s, TRUE, DeleteReq(c.s, c.k))
    [] c.op = "get" -> CrudTx(p, c.s, FALSE, GetReq(c.s, c.k))
    [] c.op = "getAll" -> CrudTx(p, c.s, FALSE, GetAllReq(c.s))
    [] c.op = "companyGet" -> CrudTx(p, "company", FALSE, GetReq("company", "default"))
    [] c.op = "form" -> CrudTx(p, "clients", FALSE, GetReq("clients", c.editId))
    [] c.op = "export" -> CrudTx(p, tag, FALSE, GetAllReq(tag))
    [] c.op = "import" -> ImportTx(p, c.snap)

\* The call once that continuation ran.
ContCall(c, tag) ==
  CASE c.op = "export" -> [c EXCEPT !.pc = "queued", !.sub[tag] = "queued"]
    [] c.op = "import" ->
         IF ClearAndPutFrom(c.snap, 1).threw THEN Rejected(c, "DataError")
         ELSE [c EXCEPT !.pc = "queued"]
    [] OTHER -> [c EXCEPT !.pc = "queued"]

RECURSIVE ContAll(_, _, _)
\* The continuations of the sub-calls in tags, run one after the other.
ContAll(p, c, tags) ==
  IF tags = <<>> THEN [txs |-> <<>>, call |-> c]
  ELSE LET rest == ContAll(p, ContCall(c, Head(tags)), Tail(tags))
       IN [txs |-> <<ContTx(p, c, Head(tags))>> \o rest.txs, call |-> rest.call]

\* ------------------------------------------------------------------ openDB
\* openDB() called once for each sub-call in tags by the new call c of slot p:
\* with a cached connection the continuations run in the same task, otherwise
\* every sub-call issues an open request of its own.
OpenDB(p, c, tags) ==
  IF _db # 0
  THEN /\ txQ' = txQ \o ContAll(p, c, tags).txs
       /\ calls' = [calls EXCEPT ![p] = ContAll(p, c, tags).call]
       /\ UNCHANGED openQ
  ELSE /\ openQ' = openQ \o [i \in 1..Len(tags) |-> [p |-> p, tag |-> tags[i]]]
       /\ calls' = [calls EXCEPT ![p] = [c EXCEPT !.pc = "opening"]]
       /\ UNCHANGED txQ

\* req.onsuccess of the oldest open request: the connection is cached and the
\* waiting sub-call continues on it.
OpenSuccess ==
  /\ openQ # <<>>
  /\ LET e == Head(openQ)
         c == calls[e.p]
     IN /\ _db' = _db + 1
        /\ openQ' = Tail(openQ)
        /\ IF c.pc \in {"opening", "queued"}
           THEN /\ txQ' = Append(txQ, ContTx(e.p, c, e.tag))
                /\ calls' = [calls EXCEPT ![e.p] = ContCall(c, e.tag)]
           ELSE UNCHANGED <<txQ, calls>>
  /\ UNCHANGED <<db, gen, maxAssigned, held, pyReady>>

\* req.onerror of the oldest open request: the promise of openDB() rejects and
\* with it the call that awaited it.
OpenError ==
  /\ openQ # <<>>
  /\ LET e == Head(openQ)
         c == calls[e.p]
     IN /\ openQ' = Tail(openQ)
        /\ calls' = IF Active(c) THEN [calls EXCEPT ![e.p] = Rejected(c, "OpenError")]
                    ELSE calls
  /\ UNCHANGED <<db, gen, _db, txQ, maxAssigned, held, pyReady>>

\* -------------------------------------------------------------- CRUD calls
\* put(storeName, record): clients.put, invoices.save, timesheets.save.
Put(p, s, r) ==
  /\ FreeSlot(p)
  /\ OpenDB(p, [op |-> "put", pc |-> "new", s |-> s, r |-> r], <<s>>)
  /\ UNCHANGED <<db, gen, _db, maxAssigned, held, pyReady>>

\* { id: 'default', ...settings }: an id of the settings wins.
SettingsRecordKeepsId(r) == IF HasId(r) THEN r ELSE Rec("default", r.val)

\* { ...settings, id: 'default' }.
SettingsRecord(r) == Rec("default", r.val)

\* company.save(settings): put(STORES.company, {...settings, id: 'default'}).
CompanySave(p, r) ==
  /\ FreeSlot(p)
  /\ OpenDB(p, [op |-> "put", pc |-> "new", s |-> "company",
                r |-> SettingsRecord(r), settings |-> r], <<"company">>)
  /\ UNCHANGED <<db, gen, _db, maxAssigned, held, pyReady>>

\* company.get(): getById(STORES.company, 'default'), then the default.
CompanyGet(p) ==
  /\ FreeSlot(p)
  /\ OpenDB(p, [op |-> "companyGet", pc |-> "new"], <<"company">>)
  /\ UNCHANGED <<db, gen, _db, maxAssigned, held, pyReady>>

\* deleteRecord(storeName, id): clients.delete, invoices.delete,
\* timesheets.delete.
DeleteRecord(p, s, k) ==
  /\ FreeSlot(p)
  /\ OpenDB(p, [op |-> "delete", pc |-> "new", s |-> s, k |-> k], <<s>>)
  /\ UNCHANGED <<db, gen, _db, maxAssigned, held, pyReady>>

\* getById(storeName, id).
GetById(p, s, k) ==
  /\ FreeSlot(p)
  /\ OpenDB(p, [op |-> "get", pc |-> "new", s |-> s, k |-> k], <<s>>)
  /\ UNCHANGED <<db, gen, _db, maxAssigned, held, pyReady>>

\* getAll(storeName).
GetAll(p, s) ==
  /\ FreeSlot(p)
  /\ OpenDB(p, [op |-> "getAll", pc |-> "new", s |-> s], <<s>>)
  /\ UNCHANGED <<db, gen, _db, maxAssigned, held, pyReady>>

\* ------------------------------------------------------ backup: export, import
\* exportAll(): four getAll calls started together under Promise.all.
exportAll(p) ==
  /\ FreeSlot(p)
  /\ OpenDB(p, [op |-> "export", pc |-> "new",
                sub |-> [s \in StoreNames |-> "opening"],
                res |-> [s \in StoreNames |-> <<>>]], STORES)
  /\ UNCHANGED <<db, gen, _db, maxAssigned, held, pyReady>>

\* importAll(jsonObj): the validation loop, then openDB() and the transaction.
\* src tells a hand-made snapshot ("any") from the file of the last export.
ImportBody(p, snap, src) ==
  /\ IF Validate(snap) # "ok"
     THEN /\ calls' = [calls EXCEPT ![p] =
                         [pc |-> "done", op |-> "import", ok |-> FALSE,
                          err |-> "InvalidBackup", key |-> Validate(snap),
                          snap |-> snap]]
          /\ UNCHANGED <<openQ, txQ>>
     ELSE OpenDB(p, [op |-> "import", pc |-> "new", snap |-> snap, src |-> src],
                 <<"*">>)
  /\ UNCHANGED <<db, gen, _db, maxAssigned, held, pyReady>>

\* The backup file exportAll downloaded, parsed and handed to importAll.  Every
\* field the app stores is a string, a finite number, an array or a plain
\* object of those, which JSON.stringify and JSON.parse reproduce.
ImportBackup(p) ==
  /\ calls[p].pc = "done" /\ calls[p].op = "export" /\ calls[p].ok
  /\ ImportBody(p, calls[p].payload, "file")

\* importAll(jsonObj) with a snapshot from anywhere.
importAll(p, snap) == FreeSlot(p) /\ ImportBody(p, snap, "any")

\* ------------------------------------------------------------ client form
\* renderClientForm(editId): with an editId the client is loaded first.
renderClientForm(p, editId) ==
  /\ FreeSlot(p)
  /\ IF editId # 0
     THEN OpenDB(p, [op |-> "form", pc |-> "new", editId |-> editId], <<"clients">>)
     ELSE /\ calls' = [calls EXCEPT ![p] =
                         [op |-> "form", pc |-> "form", editId |-> editId,
                          existing |-> FALSE]]
          /\ UNCHANGED <<openQ, txQ>>
  /\ UNCHANGED <<db, gen, _db, maxAssigned, held, pyReady>>

\* The submit handler of the form: the record is built from the fields, gets
\* id = editId when editId is truthy, and goes to db.clients.put.
SubmitClientForm(p, v) ==
  /\ calls[p].pc = "form"
  /\ LET f == calls[p]
         r == IF f.editId # 0 THEN Rec(f.editId, v) ELSE NoIdRec(v)
     IN OpenDB(p, [op |-> "put", pc |-> "new", s |-> "clients", r |-> r,
                   form |-> TRUE, existing |-> f.existing], <<"clients">>)
  /\ UNCHANGED <<db, gen, _db, maxAssigned, held, pyReady>>

\* navigate('#clients') from the form: the view is replaced.
CancelClientForm(p) ==
  /\ calls[p].pc = "form"
  /\ calls' = [calls EXCEPT ![p] = Idle]
  /\ UNCHANGED <<db, gen, _db, openQ, txQ, maxAssigned, held, pyReady>>

\* --------------------------------------------------------------- documents
\* window._onPyReady(): the Python runtime is loaded.
_onPyReady ==
  /\ pyReady' = TRUE
  /\ UNCHANGED <<db, gen, _db, openQ, txQ, calls, maxAssigned, held>>

\* A preview that saves under a fixed number.
InvoiceRecordNumbered(html) == Rec(1, html)

\* The object previewInvoice hands to db.invoices.save: the summary fields and
\* the generated html, no id.
InvoiceRecord(html) == NoIdRec(html)

\* The object previewTimesheet hands to db.timesheets.save.
TimesheetRecord(html) == NoIdRec(html)

\* A preview that goes on without the Python runtime.
ReachesSaveUnready(ready, inputs) ==
  inputs.client /\ inputs.items > 0 /\ ~inputs.throws

\* Whether a preview gets to its save: the runtime is ready, the client is
\* selected (invoices), a line item or time entry is valid, and the generator
\* returns.
ReachesSave(ready, inputs) ==
  ready /\ inputs.client /\ inputs.items > 0 /\ ~inputs.throws

\* Why a preview returns before its save.
ReturnsWith(ready, inputs) ==
  IF ~ready THEN "NotReady"
  ELSE IF ~inputs.client THEN "NoClient"
  ELSE IF inputs.items = 0 THEN "NoItems"
  ELSE "GeneratorError"

\* previewInvoice / previewTimesheet on collection s with the record r to
\* save: the early returns and the catch leave a toast, the save is a put.
Preview(p, s, r, inputs) ==
  /\ FreeSlot(p)
  /\ IF ReachesSave(pyReady, inputs)
     THEN OpenDB(p, [op |-> "put", pc |-> "new", s |-> s, r |-> r,
                     doc |-> TRUE, ready |-> pyReady, inputs |-> inputs], <<s>>)
     ELSE /\ calls' = [calls EXCEPT ![p] =
                         [pc |-> "done", op |-> "preview", ok |-> FALSE, s |-> s,
                          err |-> ReturnsWith(pyReady, inputs),
                          ready |-> pyReady, inputs |-> inputs]]
          /\ UNCHANGED <<openQ, txQ>>
  /\ UNCHANGED <<db, gen, _db, maxAssigned, held, pyReady>>

\* previewInvoice(clientList, companySettings).
previewInvoice(p, inputs, html) == Preview(p, "invoices", InvoiceRecord(html), inputs)

\* previewTimesheet(companySettings): no client to select.
previewTimesheet(p, inputs, html) ==
  inputs.client /\ Preview(p, "timesheets", TimesheetRecord(html), inputs)

\* ------------------------------------------------------ transaction events
\* The object company.get() builds when no settings are stored: id 'default',
\* empty name, email, address, logo, company_number, vat_number, vat_label 'VAT'.
DefaultSettings == Rec("default", "empty")

\* company.get() without the default: the record, or undefined.
RecordOrUndefined(res) == res

\* record || { id: 'default', ... }: the value company.get() returns, as the
\* set of the one object returned.
RecordOrDefault(res) == IF res = {} THEN {DefaultSettings} ELSE res

\* What the call of a transaction with one request sees when the request
\* succeeds with res: promisify resolves the call's promise.
Resolved(c, t, res) ==
  CASE c.op \in {"put", "delete"} -> [pc |-> "resolved", res |-> res] @@ c
    [] c.op \in {"get", "getAll"} -> [pc |-> "done", ok |-> TRUE, res |-> res] @@ c
    [] c.op = "companyGet" ->
         [pc |-> "done", ok |-> TRUE, res |-> RecordOrDefault(res)] @@ c
    [] c.op = "form" ->
         \* const existing = await db.clients.get(editId); if (existing) ...
         [pc |-> "form", existing |-> (res # {})] @@ c
    [] c.op = "export" ->
         LET sub == [c.sub EXCEPT ![t.tag] = "got"]
             got == [c.res EXCEPT ![t.tag] = res]
         IN IF \A s \in StoreNames : sub[s] = "got"
            THEN [pc |-> "done", op |-> "export", ok |-> TRUE, payload |-> Payload(got)]
            ELSE [c EXCEPT !.sub = sub, !.res = got]

\* The success event of the request of transaction i: the result goes to the
\* call.  A read-only transaction then completes with nothing to write.
TxRequestSuccess(i) ==
  /\ i \in DOMAIN txQ
  /\ TxReady(i)
  /\ txQ[i].phase = "queued"
  /\ txQ[i].listen = "request"
  /\ LET t == txQ[i]
         q == t.reqs[1]
         res == ReqResult(q, db, gen)
         c == calls[t.p]
     IN /\ txQ' = IF t.rw THEN [txQ EXCEPT ![i].phase = "executed"] ELSE RemoveAt(txQ, i)
        /\ calls' = IF Active(c) THEN [calls EXCEPT ![t.p] = Resolved(c, t, res)]
                    ELSE calls
        /\ maxAssigned' = IF q.t = "put" /\ q.s = "clients" /\ ~HasId(q.r)
                             /\ res > maxAssigned
                          THEN res
                          ELSE maxAssigned
  /\ UNCHANGED <<db, gen, _db, openQ, held, pyReady>>

\* The error event of a request of transaction i (quota, storage error): the
\* listener rejects, nothing else handles the event, the transaction aborts.
TxRequestError(i) ==
  /\ i \in DOMAIN txQ
  /\ TxReady(i)
  /\ txQ[i].phase = "queued"
  /\ LET t == txQ[i]
         c == calls[t.p]
     IN /\ txQ' = RemoveAt(txQ, i)
        /\ calls' = IF Active(c) /\ t.listen # "none"
                    THEN [calls EXCEPT ![t.p] =
                            Rejected(c, IF t.listen = "tx" THEN "TxError" ELSE "RequestError")]
                    ELSE calls
  /\ UNCHANGED <<db, gen, _db, openQ, maxAssigned, held, pyReady>>

\* Whether the requests of a read-write transaction are through: the success
\* events of importAll's requests have no listener and are no step of their own.
ReadyToCommit(i) ==
  /\ i \in DOMAIN txQ
  /\ TxReady(i)
  /\ txQ[i].rw
  /\ txQ[i].phase = "executed" \/ txQ[i].listen # "request"

\* What the call of a read-write transaction sees when it ends.  A put or
\* delete was resolved on its request already; importAll resolves on complete
\* and has no handler for abort.
Ended(c, t, committed) ==
  CASE t.listen = "request" -> [pc |-> "done", ok |-> TRUE, committed |-> committed] @@ c
    [] t.listen = "tx" ->
         IF committed
         THEN [pc |-> "done", ok |-> TRUE, counts |-> ImportCounts(c.snap)] @@ c
         ELSE [pc |-> "hung", op |-> c.op]
    [] OTHER -> c

\* The complete event of transaction i: its writes are committed.
TxComplete(i) ==
  /\ ReadyToCommit(i)
  /\ LET t == txQ[i]
         out == ApplyReqs(t.reqs, db, gen)
     IN /\ db' = out.d
        /\ gen' = out.g
        /\ txQ' = RemoveAt(txQ, i)
        /\ calls' = [calls EXCEPT ![t.p] = Ended(@, t, TRUE)]
        /\ held' = held \cup Keys(out.d["clients"])
  /\ UNCHANGED <<_db, openQ, maxAssigned, pyReady>>

\* The abort event of transaction i as it commits: its writes and the changes
\* to the key generators are reverted.
TxAbort(i) ==
  /\ ReadyToCommit(i)
  /\ LET t == txQ[i]
     IN /\ txQ' = RemoveAt(txQ, i)
        /\ calls' = [calls EXCEPT ![t.p] = Ended(@, t, FALSE)]
  /\ UNCHANGED <<db, gen, _db, openQ, maxAssigned, held, pyReady>>

\* The caller has seen the outcome of its call, or stops waiting for a call
\* that never settles.
Forget(p) ==
  /\ calls[p].pc \in {"done", "hung"}
  /\ calls' = [calls EXCEPT ![p] = Idle]
  /\ UNCHANGED <<db, gen, _db, openQ, txQ, maxAssigned, held, pyReady>>

\* ------------------------------------------------------------------ inputs
\* The records a call or a snapshot may carry for store s.
RecsOf(s) ==
  {Rec(k, v) : k \in KeysOf(s), v \in ValsOf(s)} \cup {NoIdRec(v) : v \in ValsOf(s)}

\* The settings objects company.save is called with.
Settings ==
  {Rec(k, v) : k \in KeysOf("company"), v \in Vals} \cup {NoIdRec(v) : v \in Vals}

\* The arrays of a snapshot: for each store how many records, MaxSnap in all.
Sizes == {n \in [StoreNames -> 0..MaxSnap] :
            n["clients"] + n["company"] + n["invoices"] + n["timesheets"] <= MaxSnap}

WellFormed ==
  UNION {{[clients |-> Arr(c), company |-> Arr(y), invoices |-> Arr(v), timesheets |-> Arr(w)] :
            c \in [1..n["clients"] -> RecsOf("clients")],
            y \in [1..n["company"] -> RecsOf("company")],
            v \in [1..n["invoices"] -> RecsOf("invoices")],
            w \in [1..n["timesheets"] -> RecsOf("timesheets")]} : n \in Sizes}

\* A record with an identifier for store s.
OneRec(s) == IF s = "company" THEN Rec("default", "a") ELSE Rec(1, "a")

\* Snapshots with keys that hold no array (missing, or another value); the
\* other keys hold empty arrays, or one of them an array of one record.
Malformed ==
  UNION {{[k \in StoreNames |->
             IF k \in bad THEN NotArr(kind)
             ELSE IF k = full THEN Arr(<<OneRec(k)>>) ELSE Arr(<<>>)] :
            full \in (StoreNames \ bad) \cup {"none"}, kind \in {"missing", "other"}} :
         bad \in (SUBSET StoreNames) \ {{}}}

MaxKeyOf(s) == IF s = "clients" THEN MaxKey ELSE MaxDocKey

\* Within the bounds: the key generators stay within the keys of the model.
InBounds(g) == \A s \in AutoStores : g[s] <= MaxKeyOf(s) + 1

PutInBounds(s, r) == InBounds(ApplyReq(PutReq(s, r), db, gen).g)

ImportInBounds(snap) ==
  Validate(snap) = "ok" => InBounds(ApplyReqs(ClearAndPutFrom(snap, 1).reqs, db, gen).g)

\* ----------------------------------------------------------- specification
\* The storage events.
StorageEvents ==
  \/ OpenSuccess
  \/ OpenError
  \/ \E i \in 1..Len(txQ) : TxRequestSuccess(i)
  \/ \E i \in 1..Len(txQ) : TxRequestError(i)
  \/ \E i \in 1..Len(txQ) : TxComplete(i) /\ InBounds(gen')
  \/ \E i \in 1..Len(txQ) : TxAbort(i)

\* The storage events and the callers that have seen their outcome.
Events ==
  \/ StorageEvents
  \/ \E p \in Procs : Forget(p)

\* The calls of the views on the four collections.
StoreCalls(p) ==
  \/ \E s \in AutoStores : \E r \in RecsOf(s) : PutInBounds(s, r) /\ Put(p, s, r)
  \/ \E r \in Settings : CompanySave(p, r)
  \/ CompanyGet(p)
  \/ \E s \in AutoStores : \E k \in KeysOf(s) : DeleteRecord(p, s, k)
  \/ \E s \in StoreNames : \E k \in KeysOf(s) : GetById(p, s, k)
  \/ \E s \in StoreNames : GetAll(p, s)
  \/ \E k \in 0..MaxKey : renderClientForm(p, k)

\* One call at a time on the collections: a call starts when nothing is in
\* flight.
Next ==
  \/ Events
  \/ \E p \in Procs : Quiet /\ StoreCalls(p)
  \/ \E p \in Procs : \E v \in Vals :
       PutInBounds("clients", NoIdRec(v)) /\ SubmitClientForm(p, v)
  \/ \E p \in Procs : CancelClientForm(p)

Spec == Init /\ [][Next]_vars

\* The backup calls.
BackupCalls(p) ==
  \/ \E snap \in WellFormed \cup Malformed : ImportInBounds(snap) /\ importAll(p, snap)
  \/ exportAll(p)

\* One backup call at a time; the file of an export may go straight to import.
NextBackup ==
  \/ Events
  \/ \E p \in Procs : Quiet /\ BackupCalls(p)
  \/ \E p \in Procs : ImportBackup(p)

SpecBackup == Init /\ [][NextBackup]_vars

\* Nothing is in flight any more and some call has settled.
AllSettled == /\ txQ = <<>>
              /\ openQ = <<>>
              /\ \A p \in Procs : ~Active(calls[p])
              /\ \E p \in Procs : calls[p].pc # "idle"

\* The session has seen the outcome of every call of a burst.
ForgetAll ==
  /\ AllSettled
  /\ calls' = [p \in Procs |-> Idle]
  /\ UNCHANGED <<db, gen, _db, openQ, txQ, maxAssigned, held, pyReady>>

\* The writes of a session on the clients collection.
WriteCalls(p) ==
  \/ \E r \in RecsOf("clients") : PutInBounds("clients", r) /\ Put(p, "clients", r)
  \/ \E k \in KeysOf("clients") : DeleteRecord(p, "clients", k)

\* A session that does not await: it issues its writes one after the other,
\* each into the next slot, while the earlier ones are still in flight.  The
\* slots are cleared together, so that within a burst a lower slot is an
\* earlier submission.
NextBurst ==
  \/ StorageEvents
  \/ ForgetAll
  \/ \E p \in Procs : WriteCalls(p)

SpecBurst == Init /\ [][NextBurst]_vars

\* The collections the settings and clients views read.
ViewStores == {"clients", "company"}

\* The reads of the views: list and get on a collection.
ReadCalls(p) ==
  \/ \E s \in ViewStores : GetAll(p, s)
  \/ \E s \in ViewStores : \E k \in KeysOf(s) : GetById(p, s, k)

\* The backups restored while the views read: clients and company settings.
RestoreSnaps ==
  {snap \in WellFormed : snap["invoices"].items = <<>> /\ snap["timesheets"].items = <<>>}

\* No import is among the calls of the burst.
NoImport == \A q \in Procs : calls[q].op # "import"

\* The calls of a restore: the import and the read of a view.
RestoreSlots == 1..MaxRestoreCalls

\* A restore while a view reads: one importAll and the reads of the view are
\* issued one after the other without waiting for the earlier one.
NextRestore ==
  \/ StorageEvents
  \/ ForgetAll
  \/ \E p \in RestoreSlots : \E snap \in RestoreSnaps :
        NoImport /\ ImportInBounds(snap) /\ importAll(p, snap)
  \/ \E p \in RestoreSlots : ReadCalls(p)

SpecRestore == Init /\ [][NextRestore]_vars

\* The collections of generated documents.
DocStores == {"invoices", "timesheets"}

\* What the form of a preview holds: whether a client is selected, how many
\* valid line items or time entries, whether the generator throws.
PreviewInputs == [client : BOOLEAN, items : 0..1, throws : BOOLEAN]

\* The records of a backup's invoices and timesheets arrays.
DocRecs(s) == {Rec(k, v) : k \in KeysOf(s), v \in Vals} \cup {NoIdRec(v) : v \in Vals}

\* Backups of the generated documents, MaxSnap records in all.
DocSnaps ==
  UNION {{[clients |-> Arr(<<>>), company |-> Arr(<<>>),
           invoices |-> Arr(v), timesheets |-> Arr(w)] :
            v \in [1..n["invoices"] -> DocRecs("invoices")],
            w \in [1..n["timesheets"] -> DocRecs("timesheets")]} :
         n \in {m \in Sizes : m["clients"] = 0 /\ m["company"] = 0}}

\* The calls of the invoice and timesheet views, and a restore.
DocCalls(p) ==
  \/ \E inputs \in PreviewInputs : \E html \in Vals :
       /\ ReachesSave(pyReady, inputs) => PutInBounds("invoices", InvoiceRecord(html))
       /\ previewInvoice(p, inputs, html)
  \/ \E inputs \in PreviewInputs : \E html \in Vals :
       /\ ReachesSave(pyReady, inputs) => PutInBounds("timesheets", TimesheetRecord(html))
       /\ previewTimesheet(p, inputs, html)
  \/ \E s \in DocStores : \E k \in KeysOf(s) : DeleteRecord(p, s, k)
  \/ \E snap \in DocSnaps : ImportInBounds(snap) /\ importAll(p, snap)

\* The document views: one call at a time, the runtime loads at any moment.
NextDocs ==
  \/ Events
  \/ _onPyReady
  \/ \E p \in Procs : Quiet /\ DocCalls(p)

SpecDocs == Init /\ [][NextDocs]_vars

\* What a backup file carries beside the four arrays: nothing, what exportAll
\* writes, or another version, another timestamp and a field of its own.
Tags == {"bare", "v1", "v2"}

Tagged(snap, tag) ==
  CASE tag = "v1" -> snap @@ [version |-> 1, exported_at |-> "now"]
    [] tag = "v2" -> snap @@ [version |-> 2, exported_at |-> "then", extra |-> "x"]
    [] OTHER -> snap

\* Backup files: the arrays of a clients and settings backup or of a malformed
\* one, under each tag.
TaggedSnaps == {Tagged(snap, tag) : snap \in RestoreSnaps \cup Malformed, tag \in Tags}

\* Exports and imports of backup files, one at a time.
NextTagged ==
  \/ Events
  \/ \E p \in Procs : \E snap \in TaggedSnaps :
        Quiet /\ ImportInBounds(snap) /\ importAll(p, snap)
  \/ \E p \in Procs : Quiet /\ exportAll(p)

SpecTagged == Init /\ [][NextTagged]_vars

\* Backups that hold clients only.
ClientSnaps ==
  {snap \in WellFormed : /\ snap["company"].items = <<>>
                          /\ snap["invoices"].items = <<>>
                          /\ snap["timesheets"].items = <<>>}

\* The writes on the clients collection and the restore of a backup.
KeyCalls(p) ==
  \/ \E r \in RecsOf("clients") : PutInBounds("clients", r) /\ Put(p, "clients", r)
  \/ \E k \in KeysOf("clients") : DeleteRecord(p, "clients", k)
  \/ \E snap \in ClientSnaps : ImportInBounds(snap) /\ importAll(p, snap)

\* Clients are saved, deleted and restored, one call at a time.
NextKeys ==
  \/ Events
  \/ \E p \in Procs : Quiet /\ KeyCalls(p)

SpecKeys == Init /\ [][NextKeys]_vars

\* Backups that hold company settings only.
CompanySnaps ==
  {snap \in WellFormed : /\ snap["clients"].items = <<>>
                          /\ snap["invoices"].items = <<>>
                          /\ snap["timesheets"].items = <<>>}

\* No call, open request or transaction is in flight.
NothingInFlight == /\ txQ = <<>>
                   /\ openQ = <<>>
                   /\ \A p \in Procs : ~Active(calls[p])

\* A restore and the settings view that reads the settings after it.
SettingsCalls(p) ==
  \/ \E snap \in CompanySnaps : ImportInBounds(snap) /\ importAll(p, snap)
  \/ CompanyGet(p)

\* One call after the other; the outcomes stay in their slots, a lower slot
\* an earlier call, until the session has seen them all.
NextSettings ==
  \/ StorageEvents
  \/ ForgetAll
  \/ \E p \in Procs : NothingInFlight /\ SettingsCalls(p)

SpecSettings == Init /\ [][NextSettings]_vars

\* -------------------------------------------------------------- properties
Collections == {"clients", "company", "invoices", "timesheets"}

\* Call p is an importAll that resolved.
ImportDone(p) == calls[p].pc = "done" /\ calls[p].op = "import" /\ calls[p].ok

\* Call p is an importAll that was rejected by the validation loop.
ImportInvalid(p) ==
  /\ calls[p].pc = "done" /\ calls[p].op = "import" /\ ~calls[p].ok
  /\ calls[p].err = "InvalidBackup"

\* The keys of a candidate snapshot that hold no array.
NotArrays(snap) == {k \in Collections : snap[k].kind # "array"}

\* The transaction at position i is importAll's and ends in this step.
ImportTxEnds(i) ==
  /\ txQ[i].tag = "*"
  /\ Len(txQ') = Len(txQ) - 1
  /\ \A j \in DOMAIN txQ' : txQ'[j] = txQ[IF j < i THEN j ELSE j + 1]

\* The import call of the transaction at position i resolves in this step.
ImportResolves(i) ==
  /\ calls[txQ[i].p].pc = "queued"
  /\ calls'[txQ[i].p].pc = "done"
  /\ calls'[txQ[i].p].ok

\* C1: when an import fails after validation has passed (an insert is refused,
\* a request fails, the commit aborts), every one of the four collections
\* holds what it held before the call: the step that ends the transaction of
\* an import that does not resolve leaves all collections unchanged.
C1_FailedImportChangesNothing ==
  [][\A i \in DOMAIN txQ :
       (ImportTxEnds(i) /\ ~ImportResolves(i)) => db' = db]_vars

\* The identifiers the records of an array carry.
IdsIn(items) == {items[j].id : j \in {h \in DOMAIN items : HasId(items[h])}}

\* The positions of the records of an array that carry no identifier.
NoIdAt(items) == {j \in DOMAIN items : ~HasId(items[j])}

\* The last record of an array that carries identifier k.
LastWith(items, k) ==
  items[CHOOSE j \in DOMAIN items :
          /\ HasId(items[j]) /\ items[j].id = k
          /\ \A h \in DOMAIN items : (h > j /\ HasId(items[h])) => items[h].id # k]

\* C2 as stated: after a successful import each collection lists exactly the
\* records of the snapshot's array for it, one listed record for each record of
\* the array, each under the identifier the snapshot stores for it.
C2_ListIsSnapshotArray ==
  \A p \in Procs : ImportDone(p) =>
    \A s \in Collections :
      LET items == calls[p].snap[s].items
      IN /\ db[s] = {items[j] : j \in DOMAIN items}
         /\ Cardinality(db[s]) = Len(items)

\* C2 amended: after a successful import each collection lists, for every
\* identifier that occurs in the snapshot's array, the last record of the array
\* with that identifier; every other listed record is a record of the array
\* that carries no identifier, listed under a generated one; nothing that was
\* in the collection before remains.
C2_ListIsLastOfSnapshotArray ==
  \A p \in Procs : ImportDone(p) =>
    \A s \in Collections :
      LET items == calls[p].snap[s].items
          others == {r \in db[s] : r.id \notin IdsIn(items)}
      IN /\ \A k \in IdsIn(items) : LastWith(items, k) \in db[s]
         /\ \A r, q \in db[s] : r.id = q.id => r = q
         /\ \A r \in others : \E j \in NoIdAt(items) : items[j].val = r.val
         /\ Cardinality(others) <= Cardinality(NoIdAt(items))

\* C2 witness: an import resolved whose clients array holds two records with
\* one identifier, over a store that had held a client under another one.
C2_Witness ==
  \E p \in Procs :
    /\ ImportDone(p)
    /\ Len(calls[p].snap["clients"].items) = 2
    /\ Cardinality(db["clients"]) = 1
    /\ held \ Keys(db["clients"]) # {}

\* C3: importAll called with a malformed snapshot is rejected by the
\* validation in the step of the call, no open request and no transaction is
\* issued for it, and every collection holds what it held.
C3_MalformedImportRejectedUnchanged ==
  [][\A p \in Procs :
       ( /\ calls[p].pc # calls'[p].pc
         /\ calls'[p].op = "import"
         /\ "snap" \in DOMAIN calls'[p]
         /\ ~("snap" \in DOMAIN calls[p])
         /\ NotArrays(calls'[p].snap) # {} )
       => /\ calls'[p].pc = "done" /\ ~calls'[p].ok
          /\ calls'[p].err = "InvalidBackup"
          /\ db' = db /\ gen' = gen
          /\ txQ' = txQ /\ openQ' = openQ /\ _db' = _db]_vars

\* C3 witness: a snapshot whose clients key holds an array with a record the
\* store does not hold, and another key no array, was rejected while the
\* clients collection held records.
C3_Witness ==
  \E p \in Procs :
    /\ ImportInvalid(p)
    /\ db["clients"] # {}
    /\ calls[p].snap["clients"].kind = "array"
    /\ calls[p].snap["clients"].items # <<>>
    /\ calls[p].snap["clients"].items[1] \notin db["clients"]
    /\ txQ = <<>> /\ openQ = <<>>

\* The rank of a key in the order clients, company, invoices, timesheets.
OrderOf(k) ==
  CASE k = "clients" -> 1 [] k = "company" -> 2 [] k = "invoices" -> 3
    [] k = "timesheets" -> 4

\* C4: validation accepts a candidate snapshot if and only if each of the keys
\* clients, company, invoices, timesheets holds an array, and when it rejects
\* the error names the first key, in that order, that holds none.
C4_ValidationNamesFirstOffendingKey ==
  \A p \in Procs : (calls[p].op = "import" /\ "snap" \in DOMAIN calls[p]) =>
    LET bad == NotArrays(calls[p].snap)
    IN /\ ImportInvalid(p) <=> bad # {}
       /\ ImportInvalid(p) =>
            /\ calls[p].key \in bad
            /\ \A k \in bad : OrderOf(calls[p].key) <= OrderOf(k)

\* C4 witness: a snapshot whose company and invoices keys hold no array was
\* rejected with company named.
C4_Witness ==
  \E p \in Procs :
    /\ ImportInvalid(p)
    /\ NotArrays(calls[p].snap) = {"company", "invoices"}
    /\ calls[p].key = "company"

\* C5: a put without identifier on the clients collection is resolved with an
\* identifier greater than every identifier a put without identifier was
\* resolved with before, whatever was deleted in between.
C5_AssignedIdsIncrease ==
  [][\A p \in Procs :
       ( /\ calls[p].pc = "queued" /\ calls[p].op = "put"
         /\ calls[p].s = "clients" /\ ~HasId(calls[p].r)
         /\ calls'[p].pc = "resolved" )
       => calls'[p].res > maxAssigned]_vars

\* C6: identifiers are unique within the clients collection, and the record
\* the client form stores as a new client (the form found no client to edit)
\* never takes an identifier that a client record has held before.
C6_IdNeverReused ==
  [][\A p \in Procs :
       /\ \A r, q \in db'["clients"] : r.id = q.id => r = q
       /\ ( /\ calls[p].pc = "resolved" /\ calls[p].op = "put"
            /\ "form" \in DOMAIN calls[p] /\ ~calls[p].existing
            /\ HasId(calls[p].r)
            /\ calls'[p].pc = "done" /\ calls'[p].committed )
          => calls[p].r.id \notin held]_vars

\* C7: a put, delete or save whose promise has resolved is committed: no call
\* that resolved ends with its transaction aborted.
C7_ResolvedMeansCommitted ==
  \A p \in Procs :
    (calls[p].pc = "done" /\ calls[p].op \in {"put", "delete"} /\ calls[p].ok)
      => calls[p].committed

\* C8: at most one open request is ever in flight and at most one connection
\* is ever opened.
C8_OneOpenRequest == Len(openQ) <= 1 /\ _db <= 1

\* C9: an import call that has not settled has an open request or a transaction
\* in flight whose events settle it: it never stays pending with nothing left
\* to settle it.
C9_ImportSettles ==
  \A p \in Procs :
    (calls[p].op = "import" /\ calls[p].pc # "done")
      => \/ \E j \in DOMAIN openQ : openQ[j].p = p
         \/ \E i \in DOMAIN txQ : txQ[i].p = p /\ txQ[i].listen = "tx"

\* C10: importing the snapshot that exportAll produced on a store state leaves
\* every collection with the records it had, under the same identifiers.
C10_ImportOfExportIsIdentity ==
  [][\A i \in DOMAIN txQ :
       ( /\ txQ[i].tag = "*"
         /\ calls[txQ[i].p].pc = "queued"
         /\ calls[txQ[i].p].src = "file"
         /\ ImportResolves(i) )
       => db' = db]_vars

\* C10 witness: the import of an exported snapshot resolved on a store that
\* holds a client and company settings.
C10_Witness ==
  \E p \in Procs :
    /\ ImportDone(p)
    /\ calls[p].src = "file"
    /\ db["clients"] # {} /\ db["company"] # {}

\* C11: the company collection holds no record or one record, and a record it
\* holds is stored under the key 'default'.
C11_CompanySingleton ==
  /\ Cardinality(db["company"]) <= 1
  /\ \A r \in db["company"] : r.id = "default"

\* Call p is a company.get() that resolved.
CompanyGetDone(p) ==
  calls[p].pc = "done" /\ calls[p].op = "companyGet" /\ calls[p].ok

\* C12: company.get returns exactly one object, never absence: the documented
\* default (id 'default', empty fields, vat_label 'VAT') when no settings are
\* stored, the stored settings otherwise.
C12_CompanyGetReturnsOneObject ==
  \A p \in Procs : CompanyGetDone(p) =>
    /\ Cardinality(calls[p].res) = 1
    /\ db["company"] = {} => calls[p].res = {[id |-> "default", val |-> "empty"]}
    /\ db["company"] # {} => calls[p].res = db["company"]

\* C12 witness: company.get resolved with the default on a store without
\* settings.
C12_Witness ==
  \E p \in Procs :
    /\ CompanyGetDone(p)
    /\ db["company"] = {}
    /\ calls[p].res = {[id |-> "default", val |-> "empty"]}

\* Call p is a company.save(settings) that resolved and was committed.
CompanySaveDone(p) ==
  /\ calls[p].pc = "done" /\ calls[p].op = "put" /\ calls[p].ok
  /\ "settings" \in DOMAIN calls[p]
  /\ calls[p].committed

\* C13: after company.save(settings) the company collection holds exactly the
\* supplied fields under the identifier 'default', whatever identifier the
\* settings carried and whatever was saved before.
C13_SaveOverwritesUnderDefault ==
  \A p \in Procs : CompanySaveDone(p) =>
    db["company"] = {[id |-> "default", val |-> calls[p].settings.val]}

\* C13 witness: settings that carry another identifier were saved.
C13_Witness ==
  \E p \in Procs :
    /\ CompanySaveDone(p)
    /\ HasId(calls[p].settings)
    /\ calls[p].settings.id = "other"
    /\ calls[p].settings.val = "b"

\* The put of call p, with a record that carries an identifier, is committed in
\* this step.
PutWithIdCommits(p) ==
  /\ calls[p].pc = "resolved" /\ calls[p].op = "put"
  /\ HasId(calls[p].r)
  /\ calls'[p].pc = "done" /\ calls'[p].committed

\* C14: a put with a record that carries an identifier resolves with exactly
\* that identifier, and when it commits the collection holds the record under
\* that identifier in place of the one stored there before, if any; every other
\* record of the collection and every other collection is unchanged.
C14_PutWithIdUpserts ==
  [][\A p \in Procs : PutWithIdCommits(p) =>
       LET s == calls[p].s
           r == calls[p].r
       IN /\ calls[p].res = r.id
          /\ db'[s] = {x \in db[s] : x.id # r.id} \cup {r}
          /\ \A o \in Collections \ {s} : db'[o] = db[o]]_vars

\* C14 witness: a put with an identifier that the key generator had handed out
\* before was committed on a clients collection that holds another record too.
C14_Witness ==
  \E p \in Procs :
    /\ calls[p].pc = "done" /\ calls[p].op = "put" /\ calls[p].ok
    /\ calls[p].committed
    /\ calls[p].s = "clients" /\ HasId(calls[p].r)
    /\ calls[p].r.id <= maxAssigned
    /\ calls[p].r \in db["clients"]
    /\ Cardinality(db["clients"]) = 2

\* C15: a put with an identifier and field values that the collection already
\* holds under that identifier changes nothing: the collection still lists
\* exactly one record with that identifier, with those values.
C15_SamePutTwiceChangesNothing ==
  [][\A p \in Procs :
       (PutWithIdCommits(p) /\ calls[p].r \in db[calls[p].s]) =>
         /\ db' = db
         /\ gen' = gen
         /\ {x \in db'[calls[p].s] : x.id = calls[p].r.id} = {calls[p].r}]_vars

\* C15 witness: the request of a put has succeeded, with a record that the
\* clients collection already holds under the same identifier with the same
\* values.
C15_Witness ==
  \E p \in Procs :
    /\ calls[p].pc = "resolved" /\ calls[p].op = "put"
    /\ calls[p].s = "clients"
    /\ HasId(calls[p].r) /\ calls[p].r \in db["clients"]
    /\ calls[p].res = calls[p].r.id

\* C16: a delete that commits removes the record with that identifier if the
\* collection holds one and leaves every other record and every other
\* collection unchanged; when no record has the identifier the call resolves
\* all the same and the collection is left exactly as it was.
C16_DeleteRemovesOnlyThatRecord ==
  [][\A p \in Procs :
       ( /\ calls[p].pc = "resolved" /\ calls[p].op = "delete"
         /\ calls'[p].pc = "done" /\ calls'[p].committed )
       => LET s == calls[p].s
              k == calls[p].k
          IN /\ calls'[p].ok
             /\ db'[s] = {x \in db[s] : x.id # k}
             /\ (\A x \in db[s] : x.id # k) => db'[s] = db[s]
             /\ \A o \in Collections \ {s} : db'[o] = db[o]]_vars

\* C16 witness: a delete resolved and was committed for an identifier that no
\* client record has ever had, on a clients collection that holds a record.
C16_Witness ==
  \E p \in Procs :
    /\ calls[p].pc = "done" /\ calls[p].op = "delete" /\ calls[p].ok
    /\ calls[p].committed
    /\ calls[p].s = "clients"
    /\ calls[p].k \notin held
    /\ db["clients"] # {}

\* The key a settled write of the clients collection was about: the id a put
\* returned, the id a delete was called with.
WriteKey(c) == IF c.op = "put" THEN c.res ELSE c.k

\* The call of slot p is a write on key k of the clients collection that
\* succeeded and whose transaction committed.
CommittedWrite(p, k) ==
  /\ calls[p].pc = "done"
  /\ calls[p].ok
  /\ calls[p].op \in {"put", "delete"}
  /\ calls[p].committed
  /\ calls[p].s = "clients"
  /\ WriteKey(calls[p]) = k

\* The latest submission among the slots W of a burst.
LastSubmitted(W) == CHOOSE p \in W : \A q \in W : q <= p

\* C17: writes a session issues on one collection take effect in submission
\* order, also when issued before the connection is open: for every id, the
\* record is present with the value of the put, or absent after a delete,
\* according to the latest submitted write on that id that succeeded.
C17_WritesTakeEffectInSubmissionOrder ==
  \A k \in KeysOf("clients") :
    LET W == {p \in Procs : CommittedWrite(p, k)}
    IN W # {} =>
         LET c == calls[LastSubmitted(W)]
         IN /\ c.op = "put" => Rec(k, c.r.val) \in db["clients"]
            /\ c.op = "delete" => k \notin Keys(db["clients"])

\* The records a list returned.
Listed(res) == {res[i] : i \in DOMAIN res}

\* The read of slot q resolves in this step.
ReadResolves(q) ==
  /\ calls[q].op \in {"get", "getAll"}
  /\ calls[q].pc = "queued"
  /\ calls'[q].pc = "done"
  /\ calls'[q].ok

\* What the read of slot q returns is what its collection holds: the whole
\* collection for a list, the record under the id or nothing for a get.
ReadSeesCollection(q) ==
  LET c == calls'[q]
  IN IF c.op = "getAll"
     THEN Listed(c.res) = db[c.s] /\ Len(c.res) = Cardinality(db[c.s])
     ELSE c.res = {x \in db[c.s] : x.id = c.k}

\* content is the complete array of snapshot snap for collection s: a record
\* under every id of the array, and no record that is not of the array (which
\* of two items that end under one id is kept is the matter of C2).
Restored(snap, s, content) ==
  LET items == snap[s].items
  IN /\ \A i \in DOMAIN items : HasId(items[i]) => items[i].id \in Keys(content)
     /\ items # <<>> => content # {}
     /\ \A x \in content :
          \E i \in DOMAIN items :
            items[i].val = x.val /\ (HasId(items[i]) => items[i].id = x.id)

\* C18: a list or get that interleaves with an import never observes a
\* partially applied write: a read returns what its collection holds, and what
\* a collection holds changes with an import in one step from its contents
\* before the import to the complete array of the snapshot (and not at all
\* when the import was rejected), never to a cleared or partly refilled one.
C18_ReadsSeeNoPartialImport ==
  [][/\ \A q \in Procs : ReadResolves(q) => ReadSeesCollection(q)
     /\ \A i \in DOMAIN txQ :
          ImportTxEnds(i) =>
            LET c == calls[txQ[i].p]
            IN \A s \in Collections :
                 \/ db'[s] = db[s]
                 \/ "snap" \in DOMAIN c /\ Restored(c.snap, s, db'[s])]_vars

\* C19: the value an import returns holds one count for each of the four
\* collections, the number of records of the snapshot's array for it.
C19_ImportReturnsFourCounts ==
  \A p \in Procs :
    ImportDone(p) =>
      /\ DOMAIN calls[p].counts = Collections
      /\ \A s \in DOMAIN calls[p].counts :
           calls[p].counts[s] = Len(calls[p].snap[s].items)

\* The transaction at position i is the one of a single put or delete and it
\* fails in this step: its request fails, or it aborts as it commits.
WriteFails(i) ==
  /\ txQ[i].rw
  /\ txQ[i].listen = "request"
  /\ TxRequestError(i) \/ TxAbort(i)

\* C20: a single put or delete that fails with a storage failure leaves the
\* store as it was before the call and the call ends rejected with the failure.
C20_FailedWriteUnchangedAndRaised ==
  [][\A i \in DOMAIN txQ :
       WriteFails(i) =>
         /\ db' = db
         /\ calls'[txQ[i].p].pc = "done"
         /\ ~calls'[txQ[i].p].ok]_vars

\* Call p is an exportAll that built its payload.
ExportDone(p) == calls[p].pc = "done" /\ calls[p].op = "export" /\ calls[p].ok

\* The array of payload pl for collection s holds exactly the records of the
\* collection, each once.
ArrayOfCollection(pl, s) ==
  /\ pl[s].kind = "array"
  /\ Listed(pl[s].items) = db[s]
  /\ Len(pl[s].items) = Cardinality(db[s])

\* C21: export modifies no collection and its snapshot carries version 1, an
\* export timestamp and, for each of the four collections, an array of exactly
\* the records of that collection, the company array with zero or one element.
C21_ExportIsReadOnlySnapshot ==
  \A p \in Procs :
    ExportDone(p) =>
      /\ calls[p].payload.version = 1
      /\ "exported_at" \in DOMAIN calls[p].payload
      /\ \A s \in Collections : ArrayOfCollection(calls[p].payload, s)
      /\ Len(calls[p].payload["company"].items) <= 1

\* Call p is a delete of a client that has not settled yet.
ClientDeleteInFlight(p) ==
  /\ calls[p].op = "delete"
  /\ Active(calls[p])
  /\ calls[p].s = "clients"

\* C22: deleting a client changes only the clients collection: from the call
\* to its outcome no step changes an invoice, a timesheet or the settings.
C22_ClientDeleteDoesNotCascade ==
  [][\A p \in Procs :
       ClientDeleteInFlight(p) =>
         \A s \in Collections \ {"clients"} : db'[s] = db[s]]_vars

\* C22 witness: a client was deleted, its record is gone, and the invoice
\* stored under the same number is still there.
C22_Witness ==
  \E p \in Procs :
    /\ calls[p].pc = "done" /\ calls[p].op = "delete" /\ calls[p].ok
    /\ calls[p].committed
    /\ calls[p].s = "clients"
    /\ calls[p].k \in held
    /\ calls[p].k \notin Keys(db["clients"])
    /\ calls[p].k \in Keys(db["invoices"])

\* The transaction of an import ends in this step.
ImportEnds == \E i \in DOMAIN txQ : ImportTxEnds(i)

Arrays(snap) == [k \in Collections |-> snap[k]]

\* C24: the outcome of an import depends only on the four collection arrays:
\* the import of a snapshot is accepted or rejected, places the writes and
\* returns the counts that the import of its four arrays alone would, whatever
\* its version, exported_at or extra fields.
C24_ImportDependsOnArraysOnly ==
  \A p \in Procs :
    (calls[p].op = "import" /\ "snap" \in DOMAIN calls[p]) =>
      LET snap == calls[p].snap
      IN /\ calls[p].pc = "done" =>
              (ImportInvalid(p) <=> Validate(Arrays(snap)) # "ok")
         /\ ImportInvalid(p) => calls[p].key = Validate(Arrays(snap))
         /\ \A i \in DOMAIN txQ :
              txQ[i].p = p =>
                /\ txQ[i].reqs = ImportTx(p, Arrays(snap)).reqs
                /\ txQ[i].scope = ImportTx(p, Arrays(snap)).scope
         /\ ImportDone(p) => calls[p].counts = ImportCounts(Arrays(snap))

\* C24 witness: a snapshot of version 2 with another timestamp and an extra
\* field was imported and its client is stored.
C24_Witness ==
  \E p \in Procs :
    /\ ImportDone(p)
    /\ "extra" \in DOMAIN calls[p].snap
    /\ calls[p].snap.version = 2
    /\ calls[p].snap["clients"].items # <<>>
    /\ db["clients"] # {}

\* Call p is a get that has not settled yet.
GetInFlight(p) == calls[p].op = "get" /\ Active(calls[p])

\* C25: a get for an identifier that no record of the collection holds
\* resolves with an absent result (undefined, here the empty set); a get is
\* rejected only when opening or the request fails, and no step of a get
\* changes the store.
C25_GetOfMissingIdIsAbsent ==
  [][\A p \in Procs :
       GetInFlight(p) =>
         /\ db' = db
         /\ (calls'[p].pc = "done" /\ calls'[p].ok
             /\ calls[p].k \notin Keys(db[calls[p].s]))
            => calls'[p].res = {}
         /\ (calls'[p].pc = "done" /\ ~calls'[p].ok)
            => calls'[p].err \in {"OpenError", "RequestError"}]_vars

\* C25 witness: a get resolved with an absent result on a clients collection
\* that holds a record under another identifier.
C25_Witness ==
  \E p \in Procs :
    /\ calls[p].pc = "done" /\ calls[p].op = "get" /\ calls[p].ok
    /\ calls[p].s = "clients"
    /\ calls[p].res = {}
    /\ db["clients"] # {}

\* The put without identifier of slot p on the clients collection is assigned
\* its identifier in this step.
IdAssigned(p) ==
  /\ calls[p].op = "put"
  /\ calls[p].pc = "queued"
  /\ calls[p].s = "clients"
  /\ ~HasId(calls[p].r)
  /\ calls'[p].pc = "resolved"

\* C26: the identifier a put without identifier is assigned is strictly
\* greater than every identifier a record of the collection has ever had,
\* whether it came from a put with an identifier or an import, and whether or
\* not a delete or a later import has removed it since.
C26_AssignedIdAboveAllEverPresent ==
  [][\A p \in Procs :
       IdAssigned(p) => \A k \in held : calls'[p].res > k]_vars

\* C26 witness: a put without identifier was assigned an identifier on a
\* clients collection that is empty again after having held records.
C26_Witness ==
  \E p \in Procs :
    /\ calls[p].pc = "resolved" /\ calls[p].op = "put"
    /\ calls[p].s = "clients"
    /\ ~HasId(calls[p].r)
    /\ held # {}
    /\ db["clients"] = {}
    /\ \A k \in held : calls[p].res > k

\* A store operation is issued in slot p in this step.
CallStarts(p) ==
  /\ calls[p].pc \in {"idle", "done", "form"}
  /\ calls'[p].pc \in {"opening", "queued"}

\* C27: once an open has succeeded, every store operation issued later runs on
\* the handle of that first successful open and sends no open request.
C27_LaterCallsReuseFirstHandle ==
  [][\A p \in Procs :
       (CallStarts(p) /\ _db # 0) => (_db = 1 /\ openQ' = openQ)]_vars

\* C28: for every collection it reports, the count a successful import returns
\* is the number of records the collection holds right after the import.
C28_CountsMatchStoredRecords ==
  \A p \in Procs :
    ImportDone(p) =>
      \A s \in DOMAIN calls[p].counts :
        calls[p].counts[s] = Cardinality(db[s])

\* The call of slot q is a company.get() issued right after the successful
\* import of slot p: only reads of the settings lie between them.
GetRightAfterImport(p, q) ==
  /\ p < q
  /\ ImportDone(p)
  /\ CompanyGetDone(q)
  /\ \A m \in Procs : (p < m /\ m < q) => calls[m].op = "companyGet"

\* C29: after a successful import company.get returns a record of the
\* imported company array when that array is not empty, and the built-in
\* default only when it is empty.
C29_GetReturnsImportedSettings ==
  \A p, q \in Procs :
    GetRightAfterImport(p, q) =>
      LET arr == calls[p].snap["company"].items
      IN /\ arr # <<>> => calls[q].res \subseteq Listed(arr)
         /\ arr = <<>> => calls[q].res = {[id |-> "default", val |-> "empty"]}
         /\ Cardinality(calls[q].res) = 1

\* The call record that carries the inputs of the preview of slot p.
PreviewRecord(p) ==
  IF "inputs" \in DOMAIN calls[p] THEN calls[p] ELSE calls'[p]

\* The preview of slot p is under way or starts in this step.
PreviewStep(p) ==
  \/ "inputs" \in DOMAIN calls[p] /\ calls[p].pc # "done"
  \/ calls[p].pc = "idle" /\ "inputs" \in DOMAIN calls'[p]

\* The preview of slot p ends in this step.
PreviewSettles(p) == PreviewStep(p) /\ calls'[p].pc = "done"

\* The runtime was ready, the inputs were present and the generator returned.
GoodPreview(c) ==
  c.ready /\ c.inputs.client /\ c.inputs.items > 0 /\ ~c.inputs.throws

\* This step adds exactly one record, under an identifier the collection did
\* not hold, to collection s and leaves the other document collection alone.
AddsOneRecord(s) ==
  /\ db[s] \subseteq db'[s]
  /\ Cardinality(db'[s]) = Cardinality(db[s]) + 1
  /\ Keys(db'[s]) # Keys(db[s])
  /\ \A o \in {"invoices", "timesheets"} \ {s} : db'[o] = db[o]

DocsUnchanged == \A s \in {"invoices", "timesheets"} : db'[s] = db[s]

\* C30 as stated: a preview adds exactly one record when the runtime is ready,
\* the inputs are present and generation succeeds, and otherwise changes
\* nothing.
C30_PreviewAddsOneRecord ==
  [][\A p \in Procs :
       PreviewStep(p) =>
         IF PreviewSettles(p) /\ GoodPreview(PreviewRecord(p))
         THEN AddsOneRecord(PreviewRecord(p).s)
         ELSE DocsUnchanged]_vars

\* C30: a preview adds exactly one record, under a freshly assigned
\* identifier, when the runtime is ready, the inputs are present, generation
\* succeeds and the save is committed; in every other case (not ready, missing
\* input, generator throws, the save or its transaction fails) the invoices
\* and timesheets collections are left unchanged.
C30_PreviewAddsOneRecordIfSaved ==
  [][\A p \in Procs :
       PreviewStep(p) =>
         IF /\ PreviewSettles(p) /\ GoodPreview(PreviewRecord(p))
            /\ calls'[p].ok /\ calls'[p].committed
         THEN /\ AddsOneRecord(PreviewRecord(p).s)
              /\ calls'[p].res \in Keys(db'[calls'[p].s]) \ Keys(db[calls'[p].s])
         ELSE DocsUnchanged]_vars

\* C30 witness: an invoice preview was saved and its record is in the invoices
\* collection under the identifier the save returned.
C30_Witness ==
  \E p \in Procs :
    /\ calls[p].pc = "done" /\ calls[p].op = "put" /\ calls[p].ok
    /\ "inputs" \in DOMAIN calls[p]
    /\ calls[p].committed
    /\ calls[p].s = "invoices"
    /\ pyReady
    /\ [id |-> calls[p].res, val |-> calls[p].r.val] \in db["invoices"]

\* The oldest open request fails in this step: it leaves the queue and no
\* connection is opened.
OpenFails == Len(openQ') < Len(openQ) /\ _db' = _db

\* C31: when opening fails, the operation that waited for it is rejected with
\* the open error and no handle is cached, so that the next store operation,
\* finding none, sends an open request of its own.
C31_FailedOpenCachesNothing ==
  [][/\ OpenFails =>
          /\ _db' = 0
          /\ Active(calls[Head(openQ).p]) =>
               /\ calls'[Head(openQ).p].pc = "done"
               /\ ~calls'[Head(openQ).p].ok
               /\ calls'[Head(openQ).p].err = "OpenError"
     /\ \A p \in Procs :
          (CallStarts(p) /\ _db = 0) =>
            /\ calls'[p].pc = "opening"
            /\ Len(openQ') > Len(openQ)]_vars

====
